---- MODULE Spec2Model ----
(***************************************************************************)
(* Model of the real-time socket layer of synkicycle-api                   *)
(* (SocketService: session registry, presence broadcasts, room-scoped      *)
(* relay) and of the REST route POST /api/socket/notify/:userId.           *)
(*                                                                         *)
(* Identifiers are small integers: sockets 1..MaxSockets are socket ids in *)
(* the order the transport hands them out, users 1..NumUsers are the ids   *)
(* present in the user store, NumUsers+1 is a well-formed id with no user  *)
(* document, rooms 1..NumRooms are conversation (Connection) ids.          *)
(* 0 stands for undefined / null / an absent Map key.                      *)
(***************************************************************************)
EXTENDS Integers, Sequences, FiniteSets

MaxSockets == 2
NumUsers == 2
NumRooms == 2
MaxMessages == 2
MaxRelays == 2

None == 0
Sockets == 1..MaxSockets
Users == 1..NumUsers
UnknownUser == NumUsers + 1
AllIds == Users \cup {UnknownUser}
Rooms == 1..NumRooms

VARIABLES
  nextSock,          \* next socket id the transport will hand out
  phase,             \* per socket: position in its life cycle
  token,             \* per socket: credential extracted from the handshake
  authError,         \* per socket: error passed to next() by the middleware
  userId,            \* per socket: AuthenticatedSocket.userId
  connectedUsers,    \* SocketService.connectedUsers  (userId -> socketId)
  activeConnections, \* SocketService.activeConnections (userId -> connectionId)
  rooms,             \* adapter room membership per socket (socket.join/leave)
  dbSocketId,        \* User.socketId in the user store
  connWrite,         \* sockets whose un-awaited socketId write is in flight
  shuttingDown,      \* the unhandledRejection handler has called server.close
  response,          \* answer of the HTTP request handled last, if any
  emitted,           \* events emitted by the handler that ran last
  joined,            \* history: <<socket, room>> with join-connection done
                     \*   and neither leave-connection nor disconnect since
  lastReg,           \* history: <<userId, socket>> for the socket registered
                     \*   last for userId, while no disconnect of that
                     \*   userId has been handled since
  unregAbsent,       \* history: sockets inside handleDisconnect whose userId
                     \*   had no registry entry when the handler started
  awaiting,          \* <<socket, event>>: handler of that event suspended at
                     \*   its awaited user-store write
  exited,            \* process.exit has been called
  connections,       \* Connection collection: document per _id
  messages,          \* Message collection: documents in order of creation
  unreadReq,         \* <<socket, ids>>: handleUnreadCountsRequest suspended
                     \*   after Connection.find returned the documents ids
  responding,        \* <<userId, write>>: respondToConnectionRequest of that
                     \*   user suspended at its connection.save()
  requesting,        \* <<userId, receiverId>>: sendConnectionRequest of that
                     \*   user suspended at its connection.save()
  wire               \* history, kept while wire.on: the room relays in the
                     \*   order of their calls, and per socket the packets
                     \*   written to its connection, in the order written

vars == <<nextSock, phase, token, authError, userId, connectedUsers,
          activeConnections, rooms, dbSocketId, connWrite, shuttingDown,
          response, emitted, joined, lastReg, unregAbsent, awaiting, exited,
          connections, messages, unreadReq, responding, requesting,
          wire>>

\* what the handlers of the socket layer proper leave alone
storeVars == <<connections, messages>>
asyncVars == <<awaiting, exited, unreadReq, responding, requesting>>
socketVars == <<nextSock, phase, token, authError, userId, connectedUsers,
                activeConnections, rooms, dbSocketId, connWrite, shuttingDown,
                joined, lastReg, unregAbsent>>

----------------------------------------------------------------------------
(* Handshake credentials                                                   *)

NoToken == [kind |-> "none", uid |-> None]
Malformed == [kind |-> "malformed", uid |-> None]
Expired(u) == [kind |-> "expired", uid |-> u]
Valid(u) == [kind |-> "valid", uid |-> u]
Tokens == {Malformed, Expired(1)} \cup {Valid(u) : u \in AllIds}

\* socket.handshake as far as the middleware reads it: auth.token and the
\* authorization header with its 'Bearer ' prefix already removed.
Handshakes ==
  {[auth |-> NoToken, header |-> NoToken]}
    \cup {[auth |-> t, header |-> NoToken] : t \in Tokens}
    \cup {[auth |-> NoToken, header |-> t] : t \in {Malformed, Valid(1)}}
    \cup {[auth |-> Valid(1), header |-> Malformed],
          [auth |-> Malformed, header |-> Valid(1)]}

\* auth.token || headers.authorization?.replace('Bearer ', '')
ExtractToken(hs) == IF hs.auth # NoToken THEN hs.auth ELSE hs.header

\* jwt.verify: the decoded userId, or None when it throws
JwtVerify(t) == IF t.kind = "valid" THEN t.uid ELSE None

\* User.findById(id): the document's _id, or None when there is none
FindUserById(id) == IF id \in Users THEN id ELSE None

----------------------------------------------------------------------------
(* Transport: who is reached by each way of emitting                       *)

Live == {s \in Sockets : phase[s] = "connected"}

IoEmit == Live
IoToRoomAll(r) == Live
IoToRoom(r) == {s \in Live : r \in rooms[s]}
IoToSocket(sid) == {s \in Live : s = sid}
SocketToRoomWithSender(s, r) == IoToRoom(r)
SocketToRoom(s, r) == IoToRoom(r) \ {s}
SocketBroadcast(s) == Live \ {s}

\* one emitted event: its name, the socket whose handler emitted it (None for
\* an HTTP handler), the userId or connectionId its payload is about, the
\* readBy / typing userId it carries, and the sockets it reaches
Emission(ev, from, about, by, to) ==
  [ev |-> ev, from |-> from, about |-> about, by |-> by, to |-> to]

\* socket.broadcast.emit('user:status', {userId, status, lastActive})
StatusEmission(s, status) ==
  [ev |-> "user:status", from |-> s, about |-> userId[s], by |-> None,
   to |-> SocketBroadcast(s), status |-> status]

----------------------------------------------------------------------------
(* A Map<string, string> is the set of its <<key, value>> entries          *)

MapHas(m, k) == \E p \in m : p[1] = k
MapGet(m, k) == IF MapHas(m, k) THEN (CHOOSE p \in m : p[1] = k)[2] ELSE None
MapSet(m, k, v) == {p \in m : p[1] # k} \cup {<<k, v>>}
MapDelete(m, k) == {p \in m : p[1] # k}
EntriesOf(m, k) == {p \in m : p[1] = k}

----------------------------------------------------------------------------
(* SocketService public methods                                            *)

isUserOnline(u) == MapHas(connectedUsers, u)
getUserSocketId(u) == MapGet(connectedUsers, u)
getActiveConnection(u) == MapGet(activeConnections, u)
setActiveConnectionIfAbsent(m, u, r) == IF MapHas(m, u) THEN m ELSE MapSet(m, u, r)
setActiveConnection(m, u, r) == MapSet(m, u, r)
clearActiveConnection(m, u) == MapDelete(m, u)

\* this.connectedUsers.set / this.connectedUsers.delete in the handlers
RegistrySetIfAbsent(m, u, sid) == IF MapHas(m, u) THEN m ELSE MapSet(m, u, sid)
RegistrySet(m, u, sid) == MapSet(m, u, sid)
RegistryDeleteAll(m, u) == {}
RegistryKeep(m, u) == m
RegistryDelete(m, u) == MapDelete(m, u)

sendToUserAlways(u) ==
  [sent |-> TRUE, to |-> IoToSocket(MapGet(connectedUsers, u))]

\* sendToUser(userId, event, data): its return value and whom it reaches
sendToUser(u) ==
  LET socketId == MapGet(connectedUsers, u)
  IN IF socketId # None
       THEN [sent |-> TRUE, to |-> IoToSocket(socketId)]
       ELSE [sent |-> FALSE, to |-> {}]

NoResponse == [status |-> 0, user |-> None, sent |-> FALSE]

\* an _id under which the Connection collection holds no document
NoConnection == [status |-> "none", participants |-> <<>>, lastMessageAt |-> 0]

\* nobody records what the connections carry
WireOff == [on |-> FALSE, relays |-> <<>>, inbox |-> [c \in Sockets |-> <<>>]]

Init ==
  /\ nextSock = 1
  /\ phase = [s \in Sockets |-> "new"]
  /\ token = [s \in Sockets |-> NoToken]
  /\ authError = [s \in Sockets |-> "none"]
  /\ userId = [s \in Sockets |-> None]
  /\ connectedUsers = {}
  /\ activeConnections = {}
  /\ rooms = [s \in Sockets |-> {}]
  /\ dbSocketId = [u \in AllIds |-> None]
  /\ connWrite = {}
  /\ shuttingDown = FALSE
  /\ response = NoResponse
  /\ emitted = <<>>
  /\ joined = {}
  /\ lastReg = {}
  /\ unregAbsent = {}
  /\ awaiting = {}
  /\ exited = FALSE
  /\ connections = [r \in Rooms |-> NoConnection]
  /\ messages = <<>>
  /\ unreadReq = {}
  /\ responding = {}
  /\ requesting = {}
  /\ wire = WireOff

----------------------------------------------------------------------------
(* Handshake: the io.use authentication middleware and io.on('connection') *)

MiddlewareNoLookup(hs, dbOk) ==
  LET tok == ExtractToken(hs)
      decoded == JwtVerify(tok)
  IN IF tok = NoToken
       THEN [err |-> "No token provided", uid |-> None]
     ELSE IF decoded = None \/ ~dbOk
       THEN [err |-> "Invalid token", uid |-> None]
     ELSE [err |-> "none", uid |-> decoded]

\* Outcome of the middleware for handshake hs; dbOk is whether User.findById
\* answers (a rejected query lands in the catch block).
Middleware(hs, dbOk) ==
  LET tok == ExtractToken(hs)
      decoded == JwtVerify(tok)
      user == FindUserById(decoded)
  IN IF tok = NoToken
       THEN [err |-> "No token provided", uid |-> None]
     ELSE IF decoded = None \/ ~dbOk
       THEN [err |-> "Invalid token", uid |-> None]
     ELSE IF user = None
       THEN [err |-> "User not found", uid |-> None]
     ELSE [err |-> "none", uid |-> user]

AnnounceOnlineOthers(s, uid) ==
  <<Emission("user:online", s, uid, None, IoEmit' \ {s})>>

\* this.io.emit('user:online', {userId}) inside the 'connection' handler
AnnounceOnline(s, uid) == <<Emission("user:online", s, uid, None, IoEmit')>>

\* The 'connection' handler for socket s, whose userId the middleware set
\* to uid: registry entry, un-awaited socketId write, 'user:online' to
\* everyone in the namespace, which s has entered by now.
OnConnection(s, uid) ==
  /\ phase' = [phase EXCEPT ![s] = "connected"]
  /\ IF uid # None
       THEN /\ connectedUsers' = RegistrySet(connectedUsers, uid, s)
            /\ connWrite' = connWrite \cup {s}
            /\ emitted' = AnnounceOnline(s, uid)
            /\ lastReg' = MapSet(lastReg, uid, s)
       ELSE /\ UNCHANGED <<connectedUsers, connWrite, lastReg>>
            /\ emitted' = <<>>

\* A client opens a transport connection with handshake hs. The middleware
\* either refuses it, or calls next() and the server emits 'connection'; the
\* middleware writes nothing but the socket's own fields, so both run as one
\* step and socket ids follow the order of the 'connection' events.
Handshake(hs, dbOk) ==
  /\ ~shuttingDown
  /\ nextSock <= MaxSockets
  /\ LET s == nextSock
         res == Middleware(hs, dbOk)
     IN /\ nextSock' = nextSock + 1
        /\ token' = [token EXCEPT ![s] = ExtractToken(hs)]
        /\ authError' = [authError EXCEPT ![s] = res.err]
        /\ userId' = [userId EXCEPT ![s] = res.uid]
        /\ IF res.err # "none"
             THEN /\ phase' = [phase EXCEPT ![s] = "rejected"]
                  /\ emitted' = <<>>
                  /\ UNCHANGED <<connectedUsers, connWrite, lastReg>>
             ELSE OnConnection(s, res.uid)
  /\ response' = NoResponse
  /\ UNCHANGED <<activeConnections, rooms, dbSocketId, shuttingDown, joined,
                 unregAbsent>>
  /\ UNCHANGED <<storeVars, asyncVars>>
  /\ UNCHANGED wire

\* The un-awaited User.findByIdAndUpdate(userId, {socketId}) settles; a
\* rejection is logged by its .catch.
ConnectWriteDone(s, ok) ==
  /\ ~exited
  /\ s \in connWrite
  /\ connWrite' = connWrite \ {s}
  /\ dbSocketId' = IF ok THEN [dbSocketId EXCEPT ![userId[s]] = s] ELSE dbSocketId
  /\ response' = NoResponse
  /\ emitted' = <<>>
  /\ UNCHANGED <<nextSock, phase, token, authError, userId, connectedUsers,
                 activeConnections, rooms, shuttingDown, joined, lastReg,
                 unregAbsent>>
  /\ UNCHANGED <<storeVars, asyncVars>>
  /\ UNCHANGED wire

----------------------------------------------------------------------------
(* Client events of a connected socket                                     *)

JoinConnection(s, r) ==
  /\ phase[s] = "connected"
  /\ rooms' = [rooms EXCEPT ![s] = @ \cup {r}]
  /\ activeConnections' =
       IF userId[s] # None
         THEN setActiveConnection(activeConnections, userId[s], r)
         ELSE activeConnections
  /\ joined' = joined \cup {<<s, r>>}
  /\ response' = NoResponse
  /\ emitted' = <<>>
  /\ UNCHANGED <<nextSock, phase, token, authError, userId, connectedUsers,
                 dbSocketId, connWrite, shuttingDown, lastReg, unregAbsent>>
  /\ UNCHANGED <<storeVars, asyncVars>>
  /\ UNCHANGED wire

LeaveConnection(s, r) ==
  /\ phase[s] = "connected"
  /\ rooms' = [rooms EXCEPT ![s] = @ \ {r}]
  /\ activeConnections' =
       IF userId[s] # None
         THEN clearActiveConnection(activeConnections, userId[s])
         ELSE activeConnections
  /\ joined' = joined \ {<<s, r>>}
  /\ response' = NoResponse
  /\ emitted' = <<>>
  /\ UNCHANGED <<nextSock, phase, token, authError, userId, connectedUsers,
                 dbSocketId, connWrite, shuttingDown, lastReg, unregAbsent>>
  /\ UNCHANGED <<storeVars, asyncVars>>
  /\ UNCHANGED wire

WriteFirst(stream, pkt) == <<pkt>> \o stream

\* emit writes the packet to the recipient's connection, behind the packets
\* written to it earlier
WriteTo(stream, pkt) == Append(stream, pkt)

\* The relay e as its clients come to see it: the room and its members at the
\* time of the call, and the packet on the connection of every recipient.
Relayed(w, e) ==
  LET n == Len(w.relays) + 1
  IN [on |-> TRUE,
      relays |-> Append(w.relays, [room |-> e.about, ev |-> e.ev,
                                   members |-> IoToRoom(e.about)]),
      inbox |-> [c \in Sockets |->
                   IF c \in e.to THEN WriteTo(w.inbox[c], n) ELSE w.inbox[c]]]

\* Handlers that only emit
Relay(s, ems) ==
  /\ phase[s] = "connected"
  /\ (wire.on /\ ems # <<>>) => Len(wire.relays) < MaxRelays
  /\ response' = NoResponse
  /\ emitted' = ems
  /\ wire' = IF wire.on /\ ems # <<>> THEN Relayed(wire, ems[1]) ELSE wire
  /\ UNCHANGED <<nextSock, phase, token, authError, userId, connectedUsers,
                 activeConnections, rooms, dbSocketId, connWrite, shuttingDown,
                 joined, lastReg, unregAbsent>>
  /\ UNCHANGED <<storeVars, asyncVars>>

\* what a client may put in the message field of 'send-message'
Payloads == {"hello", "bye"}

NewMessageToOthers(s, r, m) ==
  [ev |-> "new-message", from |-> s, about |-> r, by |-> None,
   to |-> SocketToRoom(s, r), message |-> m]

\* io.to(connectionId).emit('new-message', {connectionId, message})
NewMessage(s, r, m) ==
  [ev |-> "new-message", from |-> s, about |-> r, by |-> None,
   to |-> IoToRoom(r), message |-> m]

SendMessage(s, r, m) == Relay(s, <<NewMessage(s, r, m)>>)

MessageRead(s, r) ==
  Relay(s, <<Emission("message-read", s, r, userId[s], IoToRoom(r))>>)

handleTyping(s, r) ==
  Relay(s, IF userId[s] = None THEN <<>>
           ELSE <<Emission("user-typing", s, r, userId[s], SocketToRoom(s, r))>>)

handleStopTyping(s, r) ==
  Relay(s, IF userId[s] = None THEN <<>>
           ELSE <<Emission("user-stopped-typing", s, r, userId[s],
                           SocketToRoom(s, r))>>)

----------------------------------------------------------------------------
(* Disconnect                                                              *)

\* The transport closes socket s: it leaves the namespace and all its rooms,
\* then handleDisconnect runs up to its await.
handleDisconnect(s) ==
  /\ phase[s] = "connected"
  /\ rooms' = [rooms EXCEPT ![s] = {}]
  /\ joined' = {p \in joined : p[1] # s}
  /\ IF userId[s] # None
       THEN /\ connectedUsers' = RegistryDelete(connectedUsers, userId[s])
            /\ phase' = [phase EXCEPT ![s] = "closing"]
            /\ lastReg' = MapDelete(lastReg, userId[s])
            /\ unregAbsent' = IF MapHas(connectedUsers, userId[s])
                                THEN unregAbsent
                                ELSE unregAbsent \cup {s}
       ELSE /\ UNCHANGED <<connectedUsers, lastReg, unregAbsent>>
            /\ phase' = [phase EXCEPT ![s] = "closed"]
  /\ response' = NoResponse
  /\ emitted' = <<>>
  /\ UNCHANGED <<nextSock, token, authError, userId, activeConnections,
                 dbSocketId, connWrite, shuttingDown>>
  /\ UNCHANGED <<storeVars, asyncVars>>
  /\ UNCHANGED wire

\* The awaited User.findByIdAndUpdate(userId, {socketId: null}) settles and
\* handleDisconnect continues; when it rejects, the handler's promise rejects
\* and the process's unhandledRejection handler closes the server.
handleDisconnectResume(s, ok) ==
  /\ ~exited
  /\ phase[s] = "closing"
  /\ IF ok
       THEN /\ phase' = [phase EXCEPT ![s] = "closed"]
            /\ dbSocketId' = [dbSocketId EXCEPT ![userId[s]] = None]
            /\ emitted' = <<Emission("user:offline", s, userId[s], None, IoEmit),
                            StatusEmission(s, "offline")>>
            /\ UNCHANGED shuttingDown
       ELSE /\ phase' = [phase EXCEPT ![s] = "closed"]
            /\ shuttingDown' = TRUE
            /\ emitted' = <<>>
            /\ UNCHANGED dbSocketId
  /\ response' = NoResponse
  /\ unregAbsent' = unregAbsent \ {s}
  /\ UNCHANGED <<nextSock, token, authError, userId, connectedUsers,
                 activeConnections, rooms, connWrite, joined, lastReg>>
  /\ UNCHANGED <<storeVars, asyncVars>>
  /\ UNCHANGED wire

----------------------------------------------------------------------------
(* Events whose handler awaits a user-store write, and the process          *)

\* Handler of event ev on socket s up to its awaited User.findByIdAndUpdate
AwaitUserWrite(s, ev) ==
  /\ phase[s] = "connected"
  /\ <<s, ev>> \notin awaiting
  /\ awaiting' = IF userId[s] # None THEN awaiting \cup {<<s, ev>>} ELSE awaiting
  /\ response' = NoResponse
  /\ emitted' = <<>>
  /\ UNCHANGED <<nextSock, phase, token, authError, userId, connectedUsers,
                 activeConnections, rooms, dbSocketId, connWrite, shuttingDown,
                 joined, lastReg, unregAbsent, exited, unreadReq, responding,
                 storeVars>>
  /\ UNCHANGED <<wire, requesting>>

\* The awaited write settles: the handler emits ems, or its promise rejects
\* with nobody handling it and the unhandledRejection handler closes the
\* server.
ResumeUserWrite(s, ev, ok, ems) ==
  /\ ~exited
  /\ <<s, ev>> \in awaiting
  /\ awaiting' = awaiting \ {<<s, ev>>}
  /\ IF ok
       THEN emitted' = ems /\ UNCHANGED shuttingDown
       ELSE emitted' = <<>> /\ shuttingDown' = TRUE
  /\ response' = NoResponse
  /\ UNCHANGED <<nextSock, phase, token, authError, userId, connectedUsers,
                 activeConnections, rooms, dbSocketId, connWrite, joined,
                 lastReg, unregAbsent, exited, unreadReq, responding,
                 storeVars>>
  /\ UNCHANGED <<wire, requesting>>

handleUserOnline(s) == AwaitUserWrite(s, "user:online")

handleUserOnlineResume(s, ok) ==
  ResumeUserWrite(s, "user:online", ok, <<StatusEmission(s, "online")>>)

handleProfileUpdate(s) == AwaitUserWrite(s, "profile:update")

handleProfileUpdateResume(s, ok) ==
  ResumeUserWrite(s, "profile:update", ok,
                  <<Emission("user:profile:updated", s, userId[s], None,
                             SocketBroadcast(s))>>)

\* server.close(() => process.exit(1)): the callback runs once the server,
\* which accepts nothing new, has no open connection left.
ProcessExit ==
  /\ shuttingDown /\ ~exited
  /\ \A s \in Sockets : phase[s] # "connected"
  /\ exited' = TRUE
  /\ response' = NoResponse
  /\ emitted' = <<>>
  /\ UNCHANGED <<nextSock, phase, token, authError, userId, connectedUsers,
                 activeConnections, rooms, dbSocketId, connWrite, shuttingDown,
                 joined, lastReg, unregAbsent, awaiting, unreadReq, responding,
                 storeVars>>
  /\ UNCHANGED <<wire, requesting>>

----------------------------------------------------------------------------
(* Connection and Message collections and their REST controllers. The      *)
(* protect middleware has set req.user to a stored user u. A controller's  *)
(* store calls can fail before its write ("before"), after it ("after"),    *)
(* or not at all ("none").                                                  *)

Failures == {"none", "before", "after"}
Min(S) == CHOOSE x \in S : \A y \in S : x <= y

\* connectionSchema.pre('save'): participants.sort()
SortedPair(a, b) == IF a <= b THEN <<a, b>> ELSE <<b, a>>

ParticipantsOf(r) ==
  {connections[r].participants[i] : i \in DOMAIN connections[r].participants}

IsAnyone(r, u) == TRUE

\* connection.participants.some(p => p.toString() === currentUser._id.toString())
IsParticipant(r, u) == u \in ParticipantsOf(r)

\* connection.participants.find(p => p.toString() !== currentUser._id.toString())
OtherParticipant(r, u) ==
  LET ps == connections[r].participants
      is == {i \in DOMAIN ps : ps[i] # u}
  IN IF is = {} THEN None ELSE ps[Min(is)]

\* Connection.findOne({participants: {$all: [a, b]}})
ExistingConnection(a, b) ==
  {r \in Rooms : connections[r].status # "none" /\ {a, b} \subseteq ParticipantsOf(r)}

\* _ids the collection has not handed out
FreeIds == {r \in Rooms : connections[r].status = "none"}

\* res.status(code).json(...)
RestResponse(code) == [status |-> code, user |-> None, sent |-> FALSE]

\* POST /api/connections/send up to its connection.save(): the receiver and
\* an existing connection of the two are looked up, the new document is on
\* its way
sendConnectionRequest(u, v, ok) ==
  /\ ~exited
  /\ ~MapHas(requesting, u)
  /\ LET code == IF v = None THEN 400
                 ELSE IF ~ok THEN 500
                 ELSE IF FindUserById(v) = None THEN 404
                 ELSE IF ExistingConnection(u, v) # {} THEN 400
                 ELSE 0
     IN /\ code = 0 => Cardinality(FreeIds) > Cardinality(requesting)
        /\ requesting' = IF code = 0 THEN MapSet(requesting, u, v) ELSE requesting
        /\ response' = IF code = 0 THEN NoResponse ELSE RestResponse(code)
  /\ emitted' = <<>>
  /\ UNCHANGED <<socketVars, storeVars, awaiting, exited, unreadReq, responding>>
  /\ UNCHANGED wire

\* connection.save() of the suspended controller settles: the document is
\* inserted under a fresh _id, its participants sorted by the pre-save hook
sendConnectionRequestSave(u, fail) ==
  /\ ~exited
  /\ MapHas(requesting, u)
  /\ connections' =
       IF fail = "before" THEN connections
       ELSE [connections EXCEPT ![Min(FreeIds)] =
               [status |-> "pending",
                participants |-> SortedPair(u, MapGet(requesting, u)),
                lastMessageAt |-> 0]]
  /\ requesting' = MapDelete(requesting, u)
  /\ response' = RestResponse(IF fail = "none" THEN 201 ELSE 500)
  /\ emitted' = <<>>
  /\ UNCHANGED <<socketVars, messages, awaiting, exited, unreadReq, responding>>
  /\ UNCHANGED wire

\* PUT /api/connections/:connectionId/respond up to its connection.save():
\* the document is read, checked, and the new status is on its way
respondToConnectionRequest(u, r, st, ok) ==
  /\ ~exited
  /\ ~MapHas(responding, u)
  /\ LET code == IF st \notin {"accepted", "declined"} THEN 400
                 ELSE IF ~ok THEN 500
                 ELSE IF connections[r].status = "none" THEN 404
                 ELSE IF ~IsParticipant(r, u) THEN 403
                 ELSE IF connections[r].status # "pending" THEN 400
                 ELSE 0
     IN /\ responding' =
             IF code = 0
               THEN MapSet(responding, u, [id |-> r, status |-> st])
               ELSE responding
        /\ response' =
             IF code = 0 THEN NoResponse
             ELSE RestResponse(code)
  /\ emitted' = <<>>
  /\ UNCHANGED <<socketVars, storeVars, awaiting, exited, unreadReq>>
  /\ UNCHANGED <<wire, requesting>>

\* connection.save() of the suspended controller settles: $set of status
respondToConnectionRequestSave(u, fail) ==
  /\ ~exited
  /\ MapHas(responding, u)
  /\ LET w == MapGet(responding, u)
     IN connections' =
          IF fail = "before" THEN connections
          ELSE [connections EXCEPT ![w.id].status = w.status]
  /\ responding' = MapDelete(responding, u)
  /\ response' = RestResponse(IF fail = "none" THEN 200 ELSE 500)
  /\ emitted' = <<>>
  /\ UNCHANGED <<socketVars, messages, awaiting, exited, unreadReq>>
  /\ UNCHANGED <<wire, requesting>>

\* POST /api/messages/send
sendMessage(u, r, hasContent, fail) ==
  /\ ~exited
  /\ LET receiverId == OtherParticipant(r, u)
         valid == /\ hasContent /\ fail # "before"
                  /\ connections[r].status = "accepted"
                  /\ IsParticipant(r, u) /\ receiverId # None
         code == IF ~hasContent THEN 400
                 ELSE IF fail = "before" THEN 500
                 ELSE IF connections[r].status = "none" THEN 404
                 ELSE IF ~IsParticipant(r, u) THEN 403
                 ELSE IF connections[r].status # "accepted" THEN 400
                 ELSE IF receiverId = None THEN 400
                 ELSE IF fail = "after" THEN 500
                 ELSE 201
     IN /\ valid => Len(messages) < MaxMessages
        /\ messages' =
             IF valid
               THEN Append(messages, [conn |-> r, sender |-> u,
                                      receiver |-> receiverId, status |-> "sent"])
               ELSE messages
        /\ connections' =
             IF valid /\ fail = "none"
               THEN [connections EXCEPT ![r].lastMessageAt = Len(messages) + 1]
               ELSE connections
        /\ response' = RestResponse(code)
  /\ emitted' = <<>>
  /\ UNCHANGED <<socketVars, asyncVars>>
  /\ UNCHANGED wire

\* req.body.messageIds: absent, or an array of message _ids
MessageIdInputs ==
  {[given |-> FALSE, ids |-> {}]}
    \cup {[given |-> TRUE, ids |-> S] : S \in SUBSET (1..MaxMessages)}

\* the documents Message.updateMany(query, {status: 'read'}) modifies
ReadQuery(u, r, mi) ==
  {i \in DOMAIN messages :
     /\ messages[i].conn = r /\ messages[i].receiver = u
     /\ messages[i].status # "read"
     /\ (mi.given /\ mi.ids # {}) => i \in mi.ids}

\* socketService.broadcast('message-read', {connectionId, messageIds, readBy})
ReadReceipt(u, r) == Emission("message-read", None, r, u, IoEmit)

\* PUT /api/messages/:connectionId/read
markMessagesAsRead(u, r, mi, ok) ==
  /\ ~exited
  /\ LET valid == ok /\ connections[r].status # "none" /\ IsParticipant(r, u)
         modified == IF valid THEN ReadQuery(u, r, mi) ELSE {}
         code == IF ~ok THEN 500
                 ELSE IF connections[r].status = "none" THEN 404
                 ELSE IF ~IsParticipant(r, u) THEN 403
                 ELSE 200
     IN /\ messages' = [i \in DOMAIN messages |->
                          IF i \in modified
                            THEN [messages[i] EXCEPT !.status = "read"]
                            ELSE messages[i]]
        /\ emitted' = IF modified # {} /\ mi.given
                        THEN <<ReadReceipt(u, r)>>
                        ELSE <<>>
        /\ response' = RestResponse(code)
  /\ UNCHANGED <<socketVars, connections, asyncVars>>
  /\ UNCHANGED wire

----------------------------------------------------------------------------
(* 'get-unread-counts'                                                      *)

\* Connection.find({participants: userId, status: 'accepted'})
FindConnections(u) ==
  {r \in Rooms : connections[r].status = "accepted" /\ IsParticipant(r, u)}

\* the documents of a query in the order of their _id
RECURSIVE InOrder(_)
InOrder(S) == IF S = {} THEN <<>> ELSE <<Min(S)>> \o InOrder(S \ {Min(S)})

CountAllDocuments(r, u) ==
  Cardinality({i \in DOMAIN messages :
                 messages[i].conn = r /\ messages[i].receiver = u})

\* Message.countDocuments({connectionId, receiverId, status: {$ne: 'read'}})
CountDocuments(r, u) ==
  Cardinality({i \in DOMAIN messages :
                 /\ messages[i].conn = r /\ messages[i].receiver = u
                 /\ messages[i].status # "read"})

\* connections.map(connection => ({connectionId, unreadCount}))
UnreadCounts(found, u) ==
  [i \in DOMAIN InOrder(found) |->
     [connectionId |-> InOrder(found)[i],
      unreadCount |-> CountDocuments(InOrder(found)[i], u)]]

KeepAll(items) == items

\* unreadCounts.filter(item => item.unreadCount > 0)
RECURSIVE WithUnread(_)
WithUnread(items) ==
  IF items = <<>> THEN <<>>
  ELSE (IF Head(items).unreadCount > 0 THEN <<Head(items)>> ELSE <<>>)
         \o WithUnread(Tail(items))

\* connectionsWithUnread.reduce((sum, item) => sum + item.unreadCount, 0)
RECURSIVE TotalUnread(_)
TotalUnread(items) ==
  IF items = <<>> THEN 0
  ELSE TotalUnread(SubSeq(items, 1, Len(items) - 1)) + items[Len(items)].unreadCount

UnreadReplyToPrincipal(s, items) ==
  [ev |-> "unread-counts", from |-> s, about |-> userId[s], by |-> None,
   to |-> IoToSocket(getUserSocketId(userId[s])),
   unreadCounts |-> items, totalUnread |-> TotalUnread(items)]

\* socket.emit('unread-counts', {unreadCounts, totalUnread})
UnreadReply(s, items) ==
  [ev |-> "unread-counts", from |-> s, about |-> userId[s], by |-> None,
   to |-> IoToSocket(s),
   unreadCounts |-> items, totalUnread |-> TotalUnread(items)]

UnreadFailureWithReply(s) ==
  <<Emission("error", s, userId[s], None, IoToSocket(s)), UnreadReply(s, <<>>)>>

\* catch: socket.emit('error', {message: 'Failed to get unread counts'})
UnreadFailure(s) == <<Emission("error", s, userId[s], None, IoToSocket(s))>>

\* handleUnreadCountsRequest up to the answer of Connection.find
handleUnreadCountsRequest(s, ok) ==
  /\ phase[s] = "connected"
  /\ ~MapHas(unreadReq, s)
  /\ IF userId[s] = None
       THEN emitted' = <<>> /\ UNCHANGED unreadReq
     ELSE IF ok
       THEN /\ unreadReq' = MapSet(unreadReq, s, FindConnections(userId[s]))
            /\ emitted' = <<>>
     ELSE emitted' = UnreadFailure(s) /\ UNCHANGED unreadReq
  /\ response' = NoResponse
  /\ UNCHANGED <<socketVars, storeVars, awaiting, exited, responding>>
  /\ UNCHANGED <<wire, requesting>>

\* the countDocuments queries settle and the handler answers
handleUnreadCountsResume(s, ok) ==
  /\ ~exited
  /\ MapHas(unreadReq, s)
  /\ unreadReq' = MapDelete(unreadReq, s)
  /\ emitted' =
       IF ok
         THEN <<UnreadReply(s, WithUnread(UnreadCounts(MapGet(unreadReq, s),
                                                       userId[s])))>>
         ELSE UnreadFailure(s)
  /\ response' = NoResponse
  /\ UNCHANGED <<socketVars, storeVars, awaiting, exited, responding>>
  /\ UNCHANGED <<wire, requesting>>

----------------------------------------------------------------------------
(* POST /api/socket/notify/:userId                                         *)

\* global.socketService is assigned when the app module is loaded
socketServiceAvailable == TRUE

NotifyStatus(sent) == IF sent THEN 200 ELSE 404

Notify(u) ==
  /\ ~exited
  /\ IF ~socketServiceAvailable
       THEN /\ response' = [status |-> 503, user |-> u, sent |-> FALSE]
            /\ emitted' = <<>>
       ELSE LET r == sendToUser(u)
            IN /\ response' = [status |-> NotifyStatus(r.sent), user |-> u,
                               sent |-> r.sent]
               /\ emitted' = IF r.sent
                               THEN <<Emission("notification", None, u, None, r.to)>>
                               ELSE <<>>
  /\ UNCHANGED <<nextSock, phase, token, authError, userId, connectedUsers,
                 activeConnections, rooms, dbSocketId, connWrite, shuttingDown,
                 joined, lastReg, unregAbsent>>
  /\ UNCHANGED <<storeVars, asyncVars>>
  /\ UNCHANGED wire

----------------------------------------------------------------------------

\* All handlers of the socket layer and of the notify route. The settling of
\* the un-awaited socketId write is a step of the user store; no handler reads
\* what it writes, so it is kept for PersistSpec.
Next ==
  \/ \E hs \in Handshakes, dbOk \in BOOLEAN : Handshake(hs, dbOk)
  \/ \E s \in Sockets, r \in Rooms : JoinConnection(s, r)
  \/ \E s \in Sockets, r \in Rooms : LeaveConnection(s, r)
  \/ \E s \in Sockets, r \in Rooms, m \in Payloads : SendMessage(s, r, m)
  \/ \E s \in Sockets, r \in Rooms : MessageRead(s, r)
  \/ \E s \in Sockets, r \in Rooms : handleTyping(s, r)
  \/ \E s \in Sockets, r \in Rooms : handleStopTyping(s, r)
  \/ \E s \in Sockets : handleDisconnect(s)
  \/ \E s \in Sockets, ok \in BOOLEAN : handleDisconnectResume(s, ok)
  \/ \E u \in AllIds : Notify(u)

Spec == Init /\ [][Next]_vars

\* The handlers that read or write the registry connectedUsers: connecting,
\* disconnecting and the notify route. The room handlers touch neither the
\* registry nor the presence events, so the registry takes the same values
\* here as under Spec.
SessionNext ==
  \/ \E hs \in Handshakes, dbOk \in BOOLEAN : Handshake(hs, dbOk)
  \/ \E s \in Sockets : handleDisconnect(s)
  \/ \E s \in Sockets, ok \in BOOLEAN : handleDisconnectResume(s, ok)
  \/ \E u \in AllIds : Notify(u)

SessionSpec == Init /\ [][SessionNext]_vars

\* The handlers that write room membership or activeConnections, and the
\* connection life cycle they depend on. The relays write no field.
RoomNext ==
  \/ \E hs \in Handshakes, dbOk \in BOOLEAN : Handshake(hs, dbOk)
  \/ \E s \in Sockets, r \in Rooms : JoinConnection(s, r)
  \/ \E s \in Sockets, r \in Rooms : LeaveConnection(s, r)
  \/ \E s \in Sockets : handleDisconnect(s)
  \/ \E s \in Sockets, ok \in BOOLEAN : handleDisconnectResume(s, ok)

RoomSpec == Init /\ [][RoomNext]_vars

\* SessionSpec with the user store answering: the awaited write of
\* handleDisconnect settles, by resolving or by rejecting (the driver gives up
\* on a command it cannot deliver), so the suspended handler is resumed.
SessionFairSpec ==
  /\ SessionSpec
  /\ WF_vars(\E s \in Sockets, ok \in BOOLEAN : handleDisconnectResume(s, ok))

\* The socket events with a user-store write as side effect, the settling of
\* each write, and the process's reaction to a rejection nobody handles.
UserStoreNext ==
  \/ \E hs \in Handshakes, dbOk \in BOOLEAN : Handshake(hs, dbOk)
  \/ \E s \in Sockets, ok \in BOOLEAN : ConnectWriteDone(s, ok)
  \/ \E s \in Sockets : handleUserOnline(s)
  \/ \E s \in Sockets, ok \in BOOLEAN : handleUserOnlineResume(s, ok)
  \/ \E s \in Sockets : handleProfileUpdate(s)
  \/ \E s \in Sockets, ok \in BOOLEAN : handleProfileUpdateResume(s, ok)
  \/ \E s \in Sockets : handleDisconnect(s)
  \/ \E s \in Sockets, ok \in BOOLEAN : handleDisconnectResume(s, ok)
  \/ ProcessExit

UserStoreSpec == Init /\ [][UserStoreNext]_vars

\* A client connects with the valid token of stored user u
Login(u) == Handshake([auth |-> Valid(u), header |-> NoToken], TRUE)

\* Authenticated clients, the REST controllers that create connections and
\* messages, with well-formed requests and an answering store, and
\* 'get-unread-counts'.
MessageNext ==
  \/ \E u \in Users : Login(u)
  \/ \E u \in Users, v \in Users : sendConnectionRequest(u, v, TRUE)
  \/ \E u \in Users : sendConnectionRequestSave(u, "none")
  \/ \E u \in Users, r \in Rooms, st \in {"accepted", "declined"} :
       respondToConnectionRequest(u, r, st, TRUE)
  \/ \E u \in Users : respondToConnectionRequestSave(u, "none")
  \/ \E u \in Users, r \in Rooms : sendMessage(u, r, TRUE, "none")
  \/ \E s \in Sockets, ok \in BOOLEAN : handleUnreadCountsRequest(s, ok)
  \/ \E s \in Sockets, ok \in BOOLEAN : handleUnreadCountsResume(s, ok)

MessageSpec == Init /\ [][MessageNext]_vars

\* Authenticated clients and the REST controllers of connections and
\* messages, PUT /api/messages/:connectionId/read among them, with
\* well-formed requests and an answering store.
ReceiptNext ==
  \/ \E u \in Users : Login(u)
  \/ \E u \in Users, v \in Users : sendConnectionRequest(u, v, TRUE)
  \/ \E u \in Users : sendConnectionRequestSave(u, "none")
  \/ \E u \in Users, r \in Rooms, st \in {"accepted", "declined"} :
       respondToConnectionRequest(u, r, st, TRUE)
  \/ \E u \in Users : respondToConnectionRequestSave(u, "none")
  \/ \E u \in Users, r \in Rooms : sendMessage(u, r, TRUE, "none")
  \/ \E u \in Users, r \in Rooms, mi \in MessageIdInputs :
       markMessagesAsRead(u, r, mi, TRUE)

ReceiptSpec == Init /\ [][ReceiptNext]_vars

\* what a client may put in the status field of a response
StatusInputs == {"accepted", "declined", "blocked"}

\* The REST controllers that write the Connection and Message collections,
\* with every request a logged-in user can make and a store that may fail
ConnectionNext ==
  \/ \E u \in Users, v \in AllIds \cup {None}, ok \in BOOLEAN :
       sendConnectionRequest(u, v, ok)
  \/ \E u \in Users, fail \in Failures : sendConnectionRequestSave(u, fail)
  \/ \E u \in Users, r \in Rooms, st \in StatusInputs, ok \in BOOLEAN :
       respondToConnectionRequest(u, r, st, ok)
  \/ \E u \in Users, fail \in Failures : respondToConnectionRequestSave(u, fail)
  \/ \E u \in Users, r \in Rooms, hasContent \in BOOLEAN, fail \in Failures :
       sendMessage(u, r, hasContent, fail)

ConnectionSpec == Init /\ [][ConnectionNext]_vars

\* Documents the schemas of the two collections admit, as far as the
\* handlers read them
ConnectionDocs ==
  {NoConnection}
    \cup [status : {"pending", "accepted", "declined"},
          participants : {SortedPair(a, b) : a, b \in Users},
          lastMessageAt : {0}]

MessageDocs ==
  {m \in [conn : Rooms, sender : Users, receiver : Users,
          status : {"sent", "read"}] : m.sender # m.receiver}

SeqsUpTo(S, n) == UNION {[1..k -> S] : k \in 0..n}

\* The service starts against a store that holds any such documents
SummaryInit ==
  /\ nextSock = 1
  /\ phase = [s \in Sockets |-> "new"]
  /\ token = [s \in Sockets |-> NoToken]
  /\ authError = [s \in Sockets |-> "none"]
  /\ userId = [s \in Sockets |-> None]
  /\ connectedUsers = {}
  /\ activeConnections = {}
  /\ rooms = [s \in Sockets |-> {}]
  /\ dbSocketId = [u \in AllIds |-> None]
  /\ connWrite = {}
  /\ shuttingDown = FALSE
  /\ response = NoResponse
  /\ emitted = <<>>
  /\ joined = {}
  /\ lastReg = {}
  /\ unregAbsent = {}
  /\ awaiting = {}
  /\ exited = FALSE
  /\ connections \in [Rooms -> ConnectionDocs]
  /\ messages \in SeqsUpTo(MessageDocs, MaxMessages)
  /\ unreadReq = {}
  /\ responding = {}
  /\ requesting = {}
  /\ wire = WireOff

\* 'get-unread-counts' over any content of the store, with messages being
\* sent and read while a request is suspended
SummaryNext ==
  \/ \E u \in Users : Login(u)
  \/ \E s \in Sockets, ok \in BOOLEAN : handleUnreadCountsRequest(s, ok)
  \/ \E s \in Sockets, ok \in BOOLEAN : handleUnreadCountsResume(s, ok)
  \/ \E u \in Users, r \in Rooms : sendMessage(u, r, TRUE, "none")
  \/ \E u \in Users, r \in Rooms :
       markMessagesAsRead(u, r, [given |-> FALSE, ids |-> {}], TRUE)

SummarySpec == SummaryInit /\ [][SummaryNext]_vars

\* 'get-unread-counts' among connections that join and leave rooms and
\* disconnect
ReplyNext ==
  \/ \E u \in Users : Login(u)
  \/ \E s \in Sockets, r \in Rooms : JoinConnection(s, r)
  \/ \E s \in Sockets, r \in Rooms : LeaveConnection(s, r)
  \/ \E s \in Sockets, ok \in BOOLEAN : handleUnreadCountsRequest(s, ok)
  \/ \E s \in Sockets, ok \in BOOLEAN : handleUnreadCountsResume(s, ok)
  \/ \E s \in Sockets : handleDisconnect(s)
  \/ \E s \in Sockets, ok \in BOOLEAN : handleDisconnectResume(s, ok)

ReplySpec == Init /\ [][ReplyNext]_vars

\* The run is observed from the start: every room relay is recorded
OrderInit ==
  /\ nextSock = 1
  /\ phase = [s \in Sockets |-> "new"]
  /\ token = [s \in Sockets |-> NoToken]
  /\ authError = [s \in Sockets |-> "none"]
  /\ userId = [s \in Sockets |-> None]
  /\ connectedUsers = {}
  /\ activeConnections = {}
  /\ rooms = [s \in Sockets |-> {}]
  /\ dbSocketId = [u \in AllIds |-> None]
  /\ connWrite = {}
  /\ shuttingDown = FALSE
  /\ response = NoResponse
  /\ emitted = <<>>
  /\ joined = {}
  /\ lastReg = {}
  /\ unregAbsent = {}
  /\ awaiting = {}
  /\ exited = FALSE
  /\ connections = [r \in Rooms |-> NoConnection]
  /\ messages = <<>>
  /\ unreadReq = {}
  /\ responding = {}
  /\ requesting = {}
  /\ wire = [WireOff EXCEPT !.on = TRUE]

\* Clients that join and leave rooms and relay into them
OrderNext ==
  \/ \E u \in Users : Login(u)
  \/ \E s \in Sockets, r \in Rooms : JoinConnection(s, r)
  \/ \E s \in Sockets, r \in Rooms : LeaveConnection(s, r)
  \/ \E s \in Sockets, r \in Rooms : SendMessage(s, r, "hello")
  \/ \E s \in Sockets, r \in Rooms : MessageRead(s, r)
  \/ \E s \in Sockets, r \in Rooms : handleTyping(s, r)
  \/ \E s \in Sockets : handleDisconnect(s)
  \/ \E s \in Sockets, ok \in BOOLEAN : handleDisconnectResume(s, ok)

OrderSpec == OrderInit /\ [][OrderNext]_vars

\* Connects and disconnects with a user store that performs every socketId
\* write it is sent, each at its own time
HandleNext ==
  \/ \E hs \in Handshakes, dbOk \in BOOLEAN : Handshake(hs, dbOk)
  \/ \E s \in Sockets : ConnectWriteDone(s, TRUE)
  \/ \E s \in Sockets : handleDisconnect(s)
  \/ \E s \in Sockets : handleDisconnectResume(s, TRUE)

HandleSpec == Init /\ [][HandleNext]_vars

\* Users who ask each other for a connection, and clients that join rooms
\* and relay into them
ChatNext ==
  \/ \E u \in Users : Login(u)
  \/ \E u \in Users, v \in Users : sendConnectionRequest(u, v, TRUE)
  \/ \E u \in Users : sendConnectionRequestSave(u, "none")
  \/ \E s \in Sockets, r \in Rooms : JoinConnection(s, r)
  \/ \E s \in Sockets, r \in Rooms : SendMessage(s, r, "hello")
  \/ \E s \in Sockets, r \in Rooms : MessageRead(s, r)
  \/ \E s \in Sockets, r \in Rooms : handleTyping(s, r)
  \/ \E s \in Sockets, r \in Rooms : handleStopTyping(s, r)

ChatSpec == Init /\ [][ChatNext]_vars

PersistNext ==
  \/ Next
  \/ \E s \in Sockets, ok \in BOOLEAN : ConnectWriteDone(s, ok)

PersistSpec == Init /\ [][PersistNext]_vars

----------------------------------------------------------------------------
(* Properties                                                              *)

Emitted == {emitted[i] : i \in DOMAIN emitted}
LiveOf(u) == {s \in Live : userId[s] = u}
Newest(S) == CHOOSE x \in S : \A y \in S : y <= x
JoinedTo(r) == {c \in Sockets : <<c, r>> \in joined}
RoomEvents == {"new-message", "message-read", "user-typing", "user-stopped-typing"}
SenderExcluded == {"user-typing", "user-stopped-typing"}
OfflineEvents == {"user:offline", "user:status"}
AuthErrors == {"No token provided", "Invalid token", "User not found"}
BadCredential(t) == t = NoToken \/ t.kind # "valid" \/ t.uid \notin Users

\* C1: once socket h has been registered for principal P, and as long as no
\* disconnect of P has been handled since, isUserOnline(P) is true and
\* getUserSocketId(P) is the handle registered last for P.
C1_RegisteredIsOnline ==
  \A p \in lastReg : isUserOnline(p[1]) /\ getUserSocketId(p[1]) = p[2]

\* P is registered and the disconnect of another principal has been handled
C1_Witness ==
  \E p \in lastReg : \E s \in Sockets :
    userId[s] \notin {None, p[1]} /\ phase[s] = "closed"

\* C2: when P is registered with h1 and then, with no disconnect of P in
\* between, with another handle h2, the registry holds exactly one entry for
\* P and it is bound to h2.
C2_LastWriteWins ==
  [][\A u \in AllIds :
       (MapHas(lastReg, u) /\ MapHas(lastReg', u)
          /\ MapGet(lastReg', u) # MapGet(lastReg, u))
       => EntriesOf(connectedUsers', u) = {<<u, MapGet(lastReg', u)>>}]_vars

\* P holds two connections at once and the later one was registered last
C2_Witness ==
  \E u \in Users : \E h1, h2 \in Sockets :
    /\ h1 < h2 /\ userId[h1] = u /\ userId[h2] = u
    /\ phase[h1] = "connected" /\ <<u, h2>> \in lastReg

\* C3: a principal has a registry entry exactly when it has a live
\* connection, and the entry is bound to the most recently connected of its
\* live connections.
C3_EntryIffLiveAndNewest ==
  \A u \in Users :
    /\ isUserOnline(u) <=> LiveOf(u) # {}
    /\ LiveOf(u) # {} => getUserSocketId(u) = Newest(LiveOf(u))

\* C4: a disconnect handled while its principal has no registry entry
\* leaves the registry unchanged and emits neither 'user:offline' nor
\* 'user:status'.
C4_AbsentUnregisterIsNoop ==
  [][\A s \in Sockets :
       /\ (phase[s] = "connected" /\ phase'[s] # "connected"
             /\ ~isUserOnline(userId[s]))
          => connectedUsers' = connectedUsers
       /\ (s \in unregAbsent /\ phase'[s] = "closed")
          => \A i \in DOMAIN emitted' :
               ~(emitted'[i].from = s /\ emitted'[i].ev \in OfflineEvents)]_vars

\* C5: a room-scoped event relayed to room R reaches exactly the connections
\* that did join-connection(R) and neither left R nor disconnected since,
\* minus the sender for the typing events.
C5_RelayReachesJoined ==
  \A e \in Emitted :
    e.ev \in RoomEvents
      => e.to = JoinedTo(e.about) \ (IF e.ev \in SenderExcluded THEN {e.from} ELSE {})

\* a typing event of a member reaches another member, a connection outside
\* the room is live, and the sender gets nothing
C5_Witness ==
  \E e \in Emitted :
    /\ e.ev = "user-typing" /\ e.from \in JoinedTo(e.about)
    /\ e.to # {} /\ e.from \notin e.to

\* C6: sendToUser(P) returns true exactly when P has a registry entry at
\* call time; when it has none nothing is emitted, the registry is unchanged
\* and the notify route answers 404; it answers 200 only for true.
C6_SendToUserIffRegistered ==
  [][response'.status # 0
       => /\ response'.sent = isUserOnline(response'.user)
          /\ connectedUsers' = connectedUsers
          /\ (~response'.sent => emitted' = <<>> /\ response'.status = 404)
          /\ (response'.status = 200 <=> response'.sent)]_vars

\* a notify for a principal that registered and went offline answered 404
C6_Witness ==
  /\ response.status = 404
  /\ \E s \in Sockets : userId[s] = response.user /\ phase[s] = "closed"

\* C7: when a connection of A that is in R1 joins R2 without leaving R1, A's
\* only active-room entry is R2, and the connection is a member of both rooms
\* and is reached by relays to both.
C7_JoinOverwritesActiveRoom ==
  [][\A s \in Sockets : \A r1, r2 \in Rooms :
       (r1 # r2 /\ <<s, r1>> \in joined /\ <<s, r2>> \notin joined
          /\ <<s, r2>> \in joined')
       => /\ EntriesOf(activeConnections', userId[s]) = {<<userId[s], r2>>}
          /\ s \in IoToRoom(r1)' /\ s \in IoToRoom(r2)']_vars

\* a connection is in two rooms and its principal's active room is the
\* second one
C7_Witness ==
  \E s \in Sockets :
    /\ {<<s, 1>>, <<s, 2>>} \subseteq joined
    /\ getActiveConnection(userId[s]) = 2

\* C8: leave-connection(R) by a connection of A clears A's active-room entry
\* only if the entry equals R; otherwise the entry is unchanged.
C8_LeaveClearsOnlyMatching ==
  [][\A s \in Sockets : \A r \in Rooms :
       (<<s, r>> \in joined /\ <<s, r>> \notin joined' /\ phase'[s] = "connected")
       => IF getActiveConnection(userId[s]) = r
            THEN ~MapHas(activeConnections', userId[s])
            ELSE activeConnections' = activeConnections]_vars

\* C9: a connection whose credential is absent, fails verification or names
\* no stored user is rejected with an authentication error, gets no registry
\* entry and runs no handler; every registry entry belongs to a connection
\* whose credential resolves to the entry's principal.
C9_OnlyAuthenticatedSessions ==
  /\ \A s \in Sockets :
       (phase[s] # "new" /\ BadCredential(token[s]))
       => /\ phase[s] = "rejected" /\ authError[s] \in AuthErrors
          /\ \A p \in connectedUsers : p[2] # s
          /\ rooms[s] = {} /\ s \notin connWrite
          /\ \A e \in Emitted : e.from # s
  /\ \A p \in connectedUsers :
       /\ ~BadCredential(token[p[2]])
       /\ token[p[2]].uid = p[1] /\ userId[p[2]] = p[1]

\* a verified token for an id without user document was refused while
\* another principal holds a session
C9_Witness ==
  \E s \in Sockets :
    /\ phase[s] = "rejected" /\ token[s] = Valid(UnknownUser)
    /\ authError[s] = "User not found" /\ connectedUsers # {}

\* C10 as claimed: 'user:online' reaches every other live connection and
\* not the connection that has just registered.
C10_OnlineToOthersOnly ==
  \A e \in Emitted : e.ev = "user:online" => e.to = Live \ {e.from}

\* C10: 'user:online' for a registering connection reaches every live
\* connection, the registering one included.
C10_OnlineToAllLive ==
  \A e \in Emitted : e.ev = "user:online" => e.to = Live /\ e.from \in e.to

\* a registration is announced while another connection is live
C10_Witness ==
  \E e \in Emitted : e.ev = "user:online" /\ Cardinality(e.to) >= 2

\* 'user:offline' about the principal of s has been emitted by the
\* disconnect handler of s to every connection that is still live
OfflineAnnounced(s) ==
  \E e \in Emitted :
    /\ e.ev = "user:offline" /\ e.from = s
    /\ e.about = userId[s] /\ e.to = Live

\* C11: every disconnect of a registered principal is eventually followed by
\* 'user:offline' for that principal to the remaining connections, whatever
\* becomes of the write that clears the persisted socketId.
C11_DisconnectLeadsToOffline ==
  \A s \in Sockets : (phase[s] = "closing") ~> OfflineAnnounced(s)

\* C12: whatever user-store write of a socket event fails, the server goes
\* on accepting connections and the process is not terminated.
C12_StoreFailureNotFatal == ~shuttingDown /\ ~exited

\* C13: 'typing' / 'stop-typing' of connection c for room R emits
\* 'user-typing' / 'user-stopped-typing' once, to every connection joined to
\* R except c and never to c, whether or not c has joined R.
C13_TypingExcludesSender ==
  [][\A s \in Sockets : \A r \in Rooms :
       /\ handleTyping(s, r)
            => /\ Len(emitted') = 1
               /\ emitted'[1].ev = "user-typing"
               /\ emitted'[1].about = r /\ emitted'[1].by = userId[s]
               /\ emitted'[1].to = JoinedTo(r) \ {s}
       /\ handleStopTyping(s, r)
            => /\ Len(emitted') = 1
               /\ emitted'[1].ev = "user-stopped-typing"
               /\ emitted'[1].about = r /\ emitted'[1].by = userId[s]
               /\ emitted'[1].to = JoinedTo(r) \ {s}]_vars

\* a stop-typing event of a connection that has not joined the room reached
\* the members of the room
C13_Witness ==
  \E e \in Emitted :
    /\ e.ev = "user-stopped-typing" /\ e.from \notin JoinedTo(e.about)
    /\ e.to = JoinedTo(e.about) /\ e.to # {}

\* C14: 'send-message' for room R emits 'new-message' exactly once, with the
\* connectionId and the message that were sent, to every connection joined to
\* R, the sender included when it has joined R.
C14_NewMessageEchoesToRoom ==
  [][\A s \in Sockets : \A r \in Rooms : \A m \in Payloads :
       SendMessage(s, r, m)
         => /\ Len(emitted') = 1
            /\ emitted'[1].ev = "new-message"
            /\ emitted'[1].about = r /\ emitted'[1].message = m
            /\ emitted'[1].to = JoinedTo(r)
            /\ (<<s, r>> \in joined => s \in emitted'[1].to)]_vars

\* a member's message reached the sender and another member
C14_Witness ==
  \E e \in Emitted :
    /\ e.ev = "new-message" /\ e.message = "bye"
    /\ e.from \in e.to /\ Cardinality(e.to) >= 2

\* C15 as claimed: every 'message-read' the server emits for conversation R,
\* from the socket event or from PUT /api/messages/:connectionId/read,
\* reaches only connections that have joined R.
C15_ReadReceiptStaysInRoom ==
  \A e \in Emitted : e.ev = "message-read" => e.to \subseteq JoinedTo(e.about)

UnreadReplies == {e \in Emitted : e.ev = "unread-counts"}
ListedIn(e) == {e.unreadCounts[i].connectionId : i \in DOMAIN e.unreadCounts}
UnreadOf(r, u) ==
  {i \in DOMAIN messages :
     messages[i].conn = r /\ messages[i].receiver = u /\ messages[i].status # "read"}

RECURSIVE SumCounts(_)
SumCounts(items) ==
  IF items = <<>> THEN 0 ELSE Head(items).unreadCount + SumCounts(Tail(items))

\* C16: no entry of an 'unread-counts' payload has unreadCount 0, whatever
\* the store holds.
C16_NoZeroEntries ==
  \A e \in UnreadReplies :
    \A i \in DOMAIN e.unreadCounts : e.unreadCounts[i].unreadCount > 0

\* a reply lists one conversation and leaves out an accepted conversation of
\* the same principal in which nothing is unread
C16_Witness ==
  \E e \in UnreadReplies :
    /\ Len(e.unreadCounts) = 1
    /\ \E r \in FindConnections(e.about) : UnreadOf(r, e.about) = {}

\* C17: in an 'unread-counts' payload totalUnread is the sum of the entries'
\* unreadCount, and each entry's unreadCount is the number of stored messages
\* of its conversation addressed to the principal and not 'read'.
C17_CountsMatchStore ==
  \A e \in UnreadReplies :
    /\ e.totalUnread = SumCounts(e.unreadCounts)
    /\ \A i \in DOMAIN e.unreadCounts :
         e.unreadCounts[i].unreadCount =
           Cardinality(UnreadOf(e.unreadCounts[i].connectionId, e.about))

\* a reply with two entries of one unread message each
C17_Witness ==
  \E e \in UnreadReplies :
    /\ Len(e.unreadCounts) = 2 /\ e.totalUnread = 2

C19_ReplyToCallerOnly ==
  \A e \in UnreadReplies :
    /\ e.to \subseteq {e.from}
    /\ phase[e.from] = "connected" => e.to = {e.from}

\* the caller got its reply while another connection of the same principal
\* was live in a room the caller is in
C19_Witness ==
  \E e \in UnreadReplies : \E c \in Live \ {e.from} :
    /\ e.to = {e.from}
    /\ userId[c] = userId[e.from]
    /\ rooms[c] \cap rooms[e.from] # {}

\* C20: when a store query of 'get-unread-counts' fails, the caller gets one
\* 'error' event and no 'unread-counts', stays connected, and the registry,
\* the active-room map and the room memberships are unchanged.
C20_UnreadFailureIsLocal ==
  [][\A s \in Sockets :
       (handleUnreadCountsRequest(s, FALSE) \/ handleUnreadCountsResume(s, FALSE))
         => /\ Len(emitted') = 1
            /\ emitted'[1].ev = "error"
            /\ emitted'[1].to = IoToSocket(s)
            /\ phase' = phase
            /\ connectedUsers' = connectedUsers
            /\ activeConnections' = activeConnections
            /\ rooms' = rooms /\ joined' = joined
            /\ shuttingDown' = shuttingDown]_vars

\* the countDocuments queries failed for a caller that is registered, has an
\* active room and got the error
C20_Witness ==
  \E e \in Emitted :
    /\ e.ev = "error" /\ e.to = {e.from}
    /\ getUserSocketId(e.about) = e.from
    /\ getActiveConnection(e.about) # None /\ rooms[e.from] # {}
    /\ unreadReq = {}

InboxOf(c) == {wire.inbox[c][k] : k \in DOMAIN wire.inbox[c]}
PlaceIn(c, n) == CHOOSE k \in DOMAIN wire.inbox[c] : wire.inbox[c][k] = n
EchoedEvents == {"new-message", "message-read"}

\* C21: of two relays to the same room, every connection that was a member of
\* the room at both calls has the first before the second on its connection
\* (both are there when the relays are 'new-message' or 'message-read', which
\* go to the whole room), and a connection has no relay on it of whose room it
\* was not a member when the relay was issued.
C21_RoomOrderNoReplay ==
  /\ \A c \in Sockets : \A n \in InboxOf(c) :
       /\ c \in wire.relays[n].members
       /\ Cardinality({k \in DOMAIN wire.inbox[c] : wire.inbox[c][k] = n}) = 1
  /\ \A i \in DOMAIN wire.relays : \A j \in DOMAIN wire.relays :
       (i < j /\ wire.relays[i].room = wire.relays[j].room) =>
         \A c \in wire.relays[i].members \cap wire.relays[j].members :
           /\ ({wire.relays[i].ev, wire.relays[j].ev} \subseteq EchoedEvents)
                => {i, j} \subseteq InboxOf(c)
           /\ ({i, j} \subseteq InboxOf(c)) => PlaceIn(c, i) < PlaceIn(c, j)

\* two relays to one room: a member at both calls holds them in call order, a
\* connection that joined in between holds the second only
C21_Witness ==
  /\ Len(wire.relays) = 2
  /\ wire.relays[1].room = wire.relays[2].room
  /\ \E c \in Sockets, d \in Sockets :
       /\ wire.inbox[c] = <<1, 2>>
       /\ d \notin wire.relays[1].members /\ d \in wire.relays[2].members
       /\ wire.inbox[d] = <<2>>

NoWritePending == connWrite = {} /\ \A s \in Sockets : phase[s] # "closing"

\* C22 as claimed: when no socketId write of a connect or a disconnect is
\* pending, and all of them succeeded, User.socketId of P is P's handle in
\* connectedUsers, or null when P has no entry.
C22_StoredHandleTracksRegistry ==
  NoWritePending => \A u \in Users : dbSocketId[u] = getUserSocketId(u)

\* C23: every entry P -> h of connectedUsers names a connection that is live
\* and was authenticated as P, so a sendToUser(P) that returns true reaches
\* exactly one connection, a live one of P.
C23_EntryIsLiveSessionOfUser ==
  /\ \A p \in connectedUsers :
       /\ p[2] \in Sockets /\ phase[p[2]] = "connected" /\ userId[p[2]] = p[1]
       /\ JwtVerify(token[p[2]]) = p[1]
  /\ \A u \in AllIds :
       sendToUser(u).sent =>
         /\ Cardinality(sendToUser(u).to) = 1
         /\ \A c \in sendToUser(u).to : c \in Live /\ userId[c] = u
  /\ \A e \in Emitted :
       e.ev = "notification" =>
         /\ e.to # {}
         /\ \A c \in e.to : c \in Live /\ userId[c] = e.about

\* a notification went to P's live connection after an older connection of P
\* had disconnected
C23_Witness ==
  \E e \in Emitted :
    /\ e.ev = "notification" /\ response.sent
    /\ \E c \in Sockets : userId[c] = e.about /\ phase[c] = "closed" /\ c \notin e.to

\* C24 as claimed: whenever getActiveConnection(P) returns a room, a live
\* connection of P is a member of that room; a disconnected P has no entry.
C24_ActiveRoomHasLiveMember ==
  \A u \in Users :
    getActiveConnection(u) # None =>
      \E c \in Live : userId[c] = u /\ getActiveConnection(u) \in rooms[c]

\* C25 as claimed: when no disconnect handler is suspended, the presence
\* event announced last for P agrees with the registry: after 'user:online'
\* P has an entry, after 'user:offline' it has none.
C25_LastPresenceMatchesRegistry ==
  (\A s \in Sockets : phase[s] # "closing") =>
    \A e \in Emitted :
      /\ e.ev = "user:online" => isUserOnline(e.about)
      /\ e.ev = "user:offline" => ~isUserOnline(e.about)

\* C26 as claimed: a 'new-message', 'message-read' or typing event of
\* conversation R reaches only connections whose principal is a participant
\* of the Connection document R.
C26_RoomEventsToParticipantsOnly ==
  \A e \in Emitted :
    e.ev \in RoomEvents => \A c \in e.to : IsParticipant(e.about, userId[c])

Existing == {r \in Rooms : connections[r].status # "none"}

\* C27 as claimed: no two Connection documents have the same two
\* participants.
C27_OneConnectionPerPair ==
  \A r1 \in Existing : \A r2 \in Existing :
    r1 # r2 => ParticipantsOf(r1) # ParticipantsOf(r2)

C29_OnlyParticipantsOfAcceptedSend ==
  [][\A u \in Users : \A r \in Rooms : \A hc \in BOOLEAN : \A fail \in Failures :
       sendMessage(u, r, hc, fail) =>
         /\ (connections[r].status # "accepted" \/ u \notin ParticipantsOf(r)) =>
               /\ messages' = messages /\ connections' = connections
               /\ (hc /\ fail = "none") =>
                     response'.status =
                       IF connections[r].status = "none" THEN 404
                       ELSE IF u \notin ParticipantsOf(r) THEN 403 ELSE 400
         /\ messages' # messages =>
               /\ messages' = Append(messages, messages'[Len(messages')])
               /\ messages'[Len(messages')].conn = r
               /\ messages'[Len(messages')].sender = u
               /\ messages'[Len(messages')].receiver \in ParticipantsOf(r) \ {u}
               /\ connections[r].status = "accepted" /\ u \in ParticipantsOf(r)
         /\ connections' # connections =>
               /\ messages' # messages
               /\ connections' =
                    [connections EXCEPT ![r].lastMessageAt = connections'[r].lastMessageAt]
    ]_vars

\* a message is stored and a later request by a non-participant of another
\* connection was refused
C29_Witness ==
  /\ messages # <<>> /\ response.status = 403
  /\ \A i \in DOMAIN messages :
       connections[messages[i].conn].lastMessageAt = i

\* C30 as claimed: PUT /api/messages/:connectionId/read by U changes only
\* messages of that connection addressed to U and not yet read, only the
\* listed ones when the body carries an id list, and sets them to 'read'.
C30_ReadChangesOnlyAddressedListed ==
  [][\A u \in Users : \A r \in Rooms : \A mi \in MessageIdInputs :
       markMessagesAsRead(u, r, mi, TRUE) =>
         \A i \in DOMAIN messages :
           messages'[i] # messages[i] =>
             /\ messages[i].conn = r /\ messages[i].receiver = u
             /\ messages[i].status # "read"
             /\ messages'[i] = [messages[i] EXCEPT !.status = "read"]
             /\ mi.given => i \in mi.ids]_vars

====
